---- MODULE Spec2Model ----
(***************************************************************************)
(* Model of package copy (src/copy.go): the value coercion engine          *)
(* DefaultService.CopyValue and the structural copy driver Copy.           *)
(*                                                                         *)
(* Go values are records [t |-> type name, v |-> payload].  The payload of *)
(* an integer is its 64-bit pattern as four 16-bit limbs, least            *)
(* significant first (what reflect.Value.Int/Uint return), so that the     *)
(* real widths 8, 16, 32 and 64 are kept.  A string is a sequence of       *)
(* one-character strings.                                                  *)
(***************************************************************************)
EXTENDS Integers, Sequences, FiniteSets, TLC

VARIABLES
  intSize,         \* strconv.IntSize of the build: the width of int and uint
  DateTimeLayout,  \* package variable DateTimeLayout
  TimeZone,        \* package variable TimeZone
  call,            \* the last call made: its arguments and its outcome
  pc,              \* the copying thread's position in a time.Time -> string conversion
  tzRead,          \* the location getTimeZone() returned to the conversion in progress
  layoutRead,      \* the value of DateTimeLayout the conversion in progress read
  seen,            \* both package variables as they were at the conversion's first read
  atStart,         \* both package variables as they were when the running Copy began
  todo,            \* the timestamps the running Copy still has to convert
  done,            \* per unit the running Copy converted: what it read and wrote
  writing,         \* the assignment to a package variable another thread is in
  writes           \* how many assignments the other thread has made

race == << pc, tzRead, layoutRead, seen, atStart, todo, done, writing, writes >>
vars == << intSize, DateTimeLayout, TimeZone, call, race >>

(***************************************************************************)
(* 64-bit words                                                            *)
(***************************************************************************)
LimbBase == 2 ^ 16
HalfLimb == 2 ^ 15
LimbMax == LimbBase - 1

\* the 64-bit pattern of a small natural number n < 2^31
Word(n) == << n % LimbBase, (n \div LimbBase) % LimbBase, 0, 0 >>

WordZero == << 0, 0, 0, 0 >>
WordMaxU64 == << LimbMax, LimbMax, LimbMax, LimbMax >>

IsNegWord(w) == w[4] >= HalfLimb

\* a + 1 modulo 2^64
IncWord(w) ==
  IF w[1] < LimbMax THEN << w[1] + 1, w[2], w[3], w[4] >>
  ELSE IF w[2] < LimbMax THEN << 0, w[2] + 1, w[3], w[4] >>
  ELSE IF w[3] < LimbMax THEN << 0, 0, w[3] + 1, w[4] >>
  ELSE IF w[4] < LimbMax THEN << 0, 0, 0, w[4] + 1 >>
  ELSE WordZero

\* two's complement negation modulo 2^64
NegWord(w) ==
  IncWord(<< LimbMax - w[1], LimbMax - w[2], LimbMax - w[3], LimbMax - w[4] >>)

\* unsigned a < b
LessWord(a, b) ==
  \/ a[4] < b[4]
  \/ a[4] = b[4] /\ a[3] < b[3]
  \/ a[4] = b[4] /\ a[3] = b[3] /\ a[2] < b[2]
  \/ a[4] = b[4] /\ a[3] = b[3] /\ a[2] = b[2] /\ a[1] < b[1]

\* 2^n as a word, 0 <= n <= 63; 2^64 is not a word
PowWord(n) == [ i \in 1..4 |->
                  IF (n \div 16) + 1 = i THEN 2 ^ (n % 16) ELSE 0 ]

\* unsigned quotient and remainder of w by 10
DivMod10(w) ==
  LET c4 == w[4]
      c3 == (c4 % 10) * LimbBase + w[3]
      c2 == (c3 % 10) * LimbBase + w[2]
      c1 == (c2 % 10) * LimbBase + w[1]
  IN [ q |-> << c1 \div 10, c2 \div 10, c3 \div 10, c4 \div 10 >>,
       r |-> c1 % 10 ]

\* w * 10 + d, with whether the result left 64 bits
MulAdd10(w, d) ==
  LET t1 == w[1] * 10 + d
      t2 == w[2] * 10 + (t1 \div LimbBase)
      t3 == w[3] * 10 + (t2 \div LimbBase)
      t4 == w[4] * 10 + (t3 \div LimbBase)
  IN [ w |-> << t1 % LimbBase, t2 % LimbBase, t3 % LimbBase, t4 % LimbBase >>,
       over |-> t4 \div LimbBase # 0 ]

\* the low `bits` bits of w, sign- or zero-extended back to 64 bits:
\* reflect's conversion of a 64-bit integer to an integer kind of that width
WrapWord(w, bits, signed) ==
  LET ext(neg) == IF signed /\ neg THEN LimbMax ELSE 0
  IN CASE bits = 64 -> w
       [] bits = 32 -> << w[1], w[2], ext(w[2] >= HalfLimb), ext(w[2] >= HalfLimb) >>
       [] bits = 16 -> << w[1], ext(w[1] >= HalfLimb), ext(w[1] >= HalfLimb),
                          ext(w[1] >= HalfLimb) >>
       [] bits = 8  -> LET b == w[1] % 256
                           e == ext(b >= 128)
                       IN << IF signed /\ b >= 128 THEN b + (LimbBase - 256) ELSE b,
                             e, e, e >>

(***************************************************************************)
(* strconv                                                                 *)
(***************************************************************************)
Digits == << "0", "1", "2", "3", "4", "5", "6", "7", "8", "9" >>
IsDigit(c) == \E i \in 1..10 : Digits[i] = c
DigitVal(c) == (CHOOSE i \in 1..10 : Digits[i] = c) - 1

RECURSIVE FormatUint(_)
\* the digits of a quotient and remainder by 10: those of the quotient, if any,
\* then the remainder's
FormatQuotRem(dm) ==
  IF dm.q = WordZero THEN << Digits[dm.r + 1] >>
  ELSE Append(FormatUint(dm.q), Digits[dm.r + 1])

\* strconv.FormatUint(w, 10)
FormatUint(w) == FormatQuotRem(DivMod10(w))

\* strconv.FormatInt(w, 10)
FormatInt(w) ==
  IF IsNegWord(w) THEN << "-" >> \o FormatUint(NegWord(w)) ELSE FormatUint(w)

\* strconv.FormatBool
FormatBool(b) == IF b THEN << "t", "r", "u", "e" >> ELSE << "f", "a", "l", "s", "e" >>

TrueTexts == { << "1" >>, << "t" >>, << "T" >>, << "T", "R", "U", "E" >>,
               << "t", "r", "u", "e" >>, << "T", "r", "u", "e" >> }
FalseTexts == { << "0" >>, << "f" >>, << "F" >>, << "F", "A", "L", "S", "E" >>,
                << "f", "a", "l", "s", "e" >>, << "F", "a", "l", "s", "e" >> }

\* strconv.ParseBool: [ok, b]
ParseBool(s) ==
  IF s \in TrueTexts THEN [ ok |-> TRUE, b |-> TRUE ]
  ELSE IF s \in FalseTexts THEN [ ok |-> TRUE, b |-> FALSE ]
  ELSE [ ok |-> FALSE, b |-> FALSE ]

\* a failed parse: strconv's err != nil
ParseError == [ ok |-> FALSE, w |-> WordZero ]

\* n*10 + d of the digit loop, an overflow of 64 bits being a range error
Accumulate(m) == [ ok |-> ~m.over, w |-> m.w ]

RECURSIVE ParseDigits(_, _)
\* the digit loop of strconv.ParseUint: acc is [ok, w]
ParseDigits(s, acc) ==
  IF s = << >> \/ ~acc.ok THEN acc
  ELSE IF ~IsDigit(Head(s)) THEN ParseError
  ELSE ParseDigits(Tail(s), Accumulate(MulAdd10(acc.w, DigitVal(Head(s)))))

\* the range check of strconv.ParseUint: n1 > maxVal
InUintRange(r, bitSize) ==
  IF r.ok /\ (bitSize = 64 \/ LessWord(r.w, PowWord(bitSize))) THEN r ELSE ParseError

\* strconv.ParseUint(s, 10, bitSize): [ok, w]
ParseUint(s, bitSize) ==
  IF s = << >> THEN ParseError
  ELSE InUintRange(ParseDigits(s, [ ok |-> TRUE, w |-> WordZero ]), bitSize)

\* the range check and the sign of strconv.ParseInt, un being the magnitude
Signed(un, neg, cutoff) ==
  IF ~un.ok THEN ParseError
  ELSE IF ~neg /\ ~LessWord(un.w, cutoff) THEN ParseError
  ELSE IF neg /\ LessWord(cutoff, un.w) THEN ParseError
  ELSE [ ok |-> TRUE, w |-> IF neg THEN NegWord(un.w) ELSE un.w ]

\* strconv.ParseInt(s, 10, bitSize): [ok, w]
ParseInt(s, bitSize) ==
  IF s = << >> THEN ParseError
  ELSE Signed(ParseUint(IF Head(s) \in { "+", "-" } THEN Tail(s) ELSE s, bitSize),
              Head(s) = "-", PowWord(bitSize - 1))


(***************************************************************************)
(* reflect: types                                                          *)
(***************************************************************************)
TBool == << "bool" >>
TString == << "string" >>
TInt == << "int" >>
TInt8 == << "int8" >>
TInt16 == << "int16" >>
TInt32 == << "int32" >>
TInt64 == << "int64" >>
TUint == << "uint" >>
TUint8 == << "uint8" >>
TUint16 == << "uint16" >>
TUint32 == << "uint32" >>
TUint64 == << "uint64" >>
TTime == << "struct", "time.Time" >>
TLabel == << "struct", "Label" >>     \* a struct with a String() method
TSrc == << "struct", "Src" >>
TDst == << "struct", "Dst" >>
TInvalid == << "invalid" >>
PtrTo(t) == << "ptr", t >>
SliceOf(t) == << "slice", t >>
MapOf(k, e) == << "map", k, e >>

SignedTypes == { TInt, TInt8, TInt16, TInt32, TInt64 }
UnsignedTypes == { TUint, TUint8, TUint16, TUint32, TUint64 }
IntegerTypes == SignedTypes \cup UnsignedTypes

\* reflect.Type.Kind
Kind(t) == t[1]
\* reflect.Type.Elem of a pointer, slice or map type
Elem(t) == IF Kind(t) = "map" THEN t[3] ELSE t[2]
\* reflect.Type.Key of a map type
Key(t) == t[2]

\* reflect.Type.Bits of an integer type
Bits(t) ==
  CASE t \in { TInt8, TUint8 } -> 8
    [] t \in { TInt16, TUint16 } -> 16
    [] t \in { TInt32, TUint32 } -> 32
    [] t \in { TInt64, TUint64 } -> 64
    [] t \in { TInt, TUint } -> intSize

\* the fields of the struct types, in declaration order
StructFields(t) ==
  CASE t = TSrc -> << [ name |-> "Name", type |-> TString ],
                      [ name |-> "Age", type |-> TInt8 ],
                      [ name |-> "Extra", type |-> TInt ],
                      [ name |-> "Tag", type |-> TString ],
                      [ name |-> "secret", type |-> TString ] >>
    [] t = TDst -> << [ name |-> "Name", type |-> TString ],
                      [ name |-> "Age", type |-> TString ],
                      [ name |-> "Other", type |-> TInt ],
                      [ name |-> "Tag", type |-> PtrTo(TString) ],
                      [ name |-> "Nick", type |-> PtrTo(TString) ],
                      [ name |-> "secret", type |-> TString ] >>
    [] t = TLabel -> << [ name |-> "Text", type |-> TString ] >>
    [] OTHER -> << >>

FieldNames(t) == { StructFields(t)[i].name : i \in 1..Len(StructFields(t)) }
\* reflect.Type.FieldByName: the type of the field
FieldType(t, n) ==
  StructFields(t)[CHOOSE i \in 1..Len(StructFields(t)) : StructFields(t)[i].name = n].type
\* a field is exported when its name starts with an upper-case letter
Exported(n) == n # "secret"

\* reflect.Type.AssignableTo, for the types of the model (no interface and no
\* defined non-struct types): identical types
AssignableTo(ft, tt) == ft = tt

\* reflect.Value.CanConvert, where neither side is a string: the integer kinds
CanConvert(ft, tt) == ft \in IntegerTypes /\ tt \in IntegerTypes

(***************************************************************************)
(* reflect: values                                                         *)
(***************************************************************************)
Invalid == [ t |-> TInvalid, v |-> << >> ]
BoolV(b) == [ t |-> TBool, v |-> b ]
StrV(s) == [ t |-> TString, v |-> s ]
IntV(t, w) == [ t |-> t, v |-> w ]
TimeV(h) == [ t |-> TTime, v |-> << h >> ]
ZeroTime == [ t |-> TTime, v |-> << >> ]
NilPtr(t) == [ t |-> PtrTo(t), v |-> << >> ]
PtrV(x) == [ t |-> PtrTo(x.t), v |-> << x >> ]
SliceV(t, s) == [ t |-> SliceOf(t), v |-> s ]
NilMap(k, e) == [ t |-> MapOf(k, e), v |-> [ nil |-> TRUE, m |-> << >> ] ]
MapV(k, e, m) == [ t |-> MapOf(k, e), v |-> [ nil |-> FALSE, m |-> m ] ]
StructV(t, f) == [ t |-> t, v |-> f ]

\* reflect.Value.IsValid
IsValid(x) == x.t # TInvalid
\* reflect.Value.IsNil of a pointer
IsNilPtr(x) == Kind(x.t) = "ptr" /\ x.v = << >>

RECURSIVE Zero(_)
\* reflect.New(t).Elem(): the zero value of the type
Zero(t) ==
  CASE t = TBool -> BoolV(FALSE)
    [] t = TString -> StrV(<< >>)
    [] t \in IntegerTypes -> IntV(t, WordZero)
    [] t = TTime -> ZeroTime
    [] Kind(t) = "ptr" -> [ t |-> t, v |-> << >> ]
    [] Kind(t) = "slice" -> [ t |-> t, v |-> << >> ]
    [] Kind(t) = "map" -> [ t |-> t, v |-> [ nil |-> TRUE, m |-> << >> ] ]
    [] Kind(t) = "struct" /\ t # TTime ->
         [ t |-> t, v |-> [ n \in FieldNames(t) |-> Zero(FieldType(t, n)) ] ]

RECURSIVE indirectValue(_)
\* indirectValue: follow pointers; a nil pointer ends in the invalid Value
indirectValue(x) ==
  IF Kind(x.t) = "ptr"
  THEN IF x.v = << >> THEN Invalid ELSE indirectValue(x.v[1])
  ELSE x

RECURSIVE indirectType(_)
\* indirectType
indirectType(t) == IF Kind(t) = "ptr" THEN indirectType(Elem(t)) ELSE t

RECURSIVE SetIndirect(_, _)
\* the slot x after reflect.Value.Set(y) on indirectValue(x)
SetIndirect(x, y) ==
  IF Kind(x.t) = "ptr" THEN [ x EXCEPT !.v = << SetIndirect(x.v[1], y) >> ] ELSE y

(***************************************************************************)
(* time: instants are whole hours counted from 2006-01-02 00:00 UTC, so a  *)
(* formatted timestamp shows both the layout and the zone it was made with *)
(***************************************************************************)
LayoutDateTime == "2006-01-02 15:04:05"   \* time.DateTime
LayoutDateOnly == "2006-01-02"            \* time.DateOnly
Layouts == { LayoutDateTime, LayoutDateOnly }

ZoneShanghai == "Asia/Shanghai"
ZoneUTC == "UTC"
ZoneUnknown == "Mars/Olympus"             \* a name time.LoadLocation rejects
ZoneNames == { ZoneShanghai, ZoneUTC, ZoneUnknown }

\* time.LoadLocation: [ok, loc]
LoadLocation(name) ==
  IF name \in { ZoneShanghai, ZoneUTC }
  THEN [ ok |-> TRUE, loc |-> name ] ELSE [ ok |-> FALSE, loc |-> ZoneUTC ]

\* hours east of UTC of a location
ZoneOffset(loc) ==
  CASE loc = ZoneShanghai -> 8 [] loc = ZoneUTC -> 0

\* getTimeZone, given the value read from TimeZone: LoadLocation's location,
\* time.UTC when it fails
getTimeZoneOf(name) == LoadLocation(name).loc

\* getTimeZone
getTimeZone == getTimeZoneOf(TimeZone)

TwoDigits(n) == << Digits[(n \div 10) + 1], Digits[(n % 10) + 1] >>
DatePrefix == << "2", "0", "0", "6", "-", "0", "1", "-" >>
ClockTail == << ":", "0", "0", ":", "0", "0" >>

\* t.In(loc).Format(layout) of the instant h
FormatTime(h, loc, layout) ==
  LET wall == h + ZoneOffset(loc)
      date == DatePrefix \o TwoDigits(2 + (wall \div 24))
  IN CASE layout = LayoutDateTime -> date \o << " " >> \o TwoDigits(wall % 24) \o ClockTail
       [] layout = LayoutDateOnly -> date
       [] OTHER -> << "?" >>        \* a layout that is neither: unpredictable text

TwoDigitVal(s, i) == DigitVal(s[i]) * 10 + DigitVal(s[i + 1])

\* time.ParseInLocation(layout, s, loc): [ok, h]
ParseInLocation(layout, s, loc) ==
  LET dateOk == /\ Len(s) >= 10
                /\ SubSeq(s, 1, 8) = DatePrefix
                /\ IsDigit(s[9]) /\ IsDigit(s[10])
                /\ TwoDigitVal(s, 9) \in 1..31
      clockOk == /\ Len(s) = 19
                 /\ s[11] = " "
                 /\ IsDigit(s[12]) /\ IsDigit(s[13])
                 /\ TwoDigitVal(s, 12) < 24
                 /\ SubSeq(s, 14, 19) = ClockTail
      fail == [ ok |-> FALSE, h |-> 0 ]
  IN IF layout = LayoutDateTime
     THEN IF dateOk /\ clockOk
          THEN [ ok |-> TRUE,
                 h |-> (TwoDigitVal(s, 9) - 2) * 24 + TwoDigitVal(s, 12) - ZoneOffset(loc) ]
          ELSE fail
     ELSE IF dateOk /\ Len(s) = 10
          THEN [ ok |-> TRUE, h |-> (TwoDigitVal(s, 9) - 2) * 24 - ZoneOffset(loc) ]
          ELSE fail

\* whether a struct type implements fmt.Stringer
IsStringer(t) == t = TLabel
\* the String() method of Label
StringOf(x) == x.v.Text.v

(***************************************************************************)
(* DefaultService.CopyValue                                                *)
(***************************************************************************)
\* outcomes of the decision procedure on unwrapped values: the value of the
\* return statement, whether toValue.Set was called, and the value set
Written(y) == [ ret |-> TRUE, wrote |-> TRUE, val |-> y ]
Skipped == [ ret |-> FALSE, wrote |-> FALSE, val |-> Invalid ]
ReturnedWithoutSet == [ ret |-> TRUE, wrote |-> FALSE, val |-> Invalid ]

\* toType.Kind() == reflect.String
IntoString(f) ==
  CASE f.t = TBool -> Written(StrV(FormatBool(f.v)))
    [] f.t \in SignedTypes -> Written(StrV(FormatInt(f.v)))
    [] f.t \in UnsignedTypes -> Written(StrV(FormatUint(f.v)))
    [] f.t = TTime -> Written(StrV(FormatTime(f.v[1], getTimeZone, DateTimeLayout)))
    [] Kind(f.t) = "struct" /\ f.t # TTime /\ IsStringer(f.t) -> Written(StrV(StringOf(f)))
    [] OTHER -> Skipped

\* fromValue.Convert(toType) between integer kinds
Convert(f, tt) == IntV(tt, WrapWord(f.v, Bits(tt), tt \in SignedTypes))

\* if err == nil: Set(reflect.ValueOf(v).Convert(toType)) and return true
SetParsedInt(p, tt) ==
  IF p.ok THEN Written(IntV(tt, WrapWord(p.w, Bits(tt), tt \in SignedTypes))) ELSE Skipped

\* strconv.ParseInt(fromValue.String(), 10, 0): bitSize 0 is the width of int
StringToInt(s, tt) == SetParsedInt(ParseInt(s, intSize), tt)

\* strconv.ParseUint(fromValue.String(), 10, 0): bitSize 0 is the width of uint
StringToUint(s, tt) == SetParsedInt(ParseUint(s, intSize), tt)

\* if err == nil: Set(reflect.ValueOf(v)) and return true
SetParsedBool(p) == IF p.ok THEN Written(BoolV(p.b)) ELSE Skipped

\* the string -> time.Time case: Set when the text parses, return true anyway
SetParsedTime(p) == IF p.ok THEN Written(TimeV(p.h)) ELSE ReturnedWithoutSet

\* time.ParseInLocation(DateTimeLayout, fromValue.String(), getTimeZone())
StringToTime(s) == SetParsedTime(ParseInLocation(DateTimeLayout, s, getTimeZone))

\* fromType.Kind() == reflect.String
FromString(f, tt) ==
  CASE tt = TBool -> SetParsedBool(ParseBool(f.v))
    [] tt \in SignedTypes -> StringToInt(f.v, tt)
    [] tt \in UnsignedTypes -> StringToUint(f.v, tt)
    [] tt = TTime -> StringToTime(f.v)
    [] OTHER -> Skipped

\* the decision procedure on the unwrapped, valid values f and d
Decide(f, d) ==
  IF AssignableTo(f.t, d.t) THEN Written(f)
  ELSE IF Kind(d.t) = "string" THEN IntoString(f)
  ELSE IF Kind(f.t) = "string" THEN FromString(f, d.t)
  ELSE IF CanConvert(f.t, d.t) THEN Written(Convert(f, d.t))
  ELSE Skipped

\* toValue.Set(...) on the unwrapped slot, when the procedure called it
Store(r, to) ==
  [ ret |-> r.ret, wrote |-> r.wrote, to |-> IF r.wrote THEN SetIndirect(to, r.val) ELSE to ]

\* CopyValue once both values are unwrapped: an invalid one returns false
CopyUnwrapped(f, d, to) ==
  IF ~IsValid(f) \/ ~IsValid(d)
  THEN [ ret |-> FALSE, wrote |-> FALSE, to |-> to ]
  ELSE Store(Decide(f, d), to)

\* CopyValue(fromValue, toValue): [ret, wrote, to], to being the slot afterwards
CopyValue(from, to) == CopyUnwrapped(indirectValue(from), indirectValue(to), to)

(***************************************************************************)
(* Copy                                                                    *)
(***************************************************************************)
\* the text of a field name, as reflect.ValueOf(fromField.Name) holds it
NameText(n) ==
  CASE n = "Name" -> << "N", "a", "m", "e" >>
    [] n = "Age" -> << "A", "g", "e" >>
    [] n = "Extra" -> << "E", "x", "t", "r", "a" >>
    [] n = "Other" -> << "O", "t", "h", "e", "r" >>
    [] n = "Tag" -> << "T", "a", "g" >>
    [] n = "Nick" -> << "N", "i", "c", "k" >>
    [] n = "secret" -> << "s", "e", "c", "r", "e", "t" >>
    [] n = "Text" -> << "T", "e", "x", "t" >>

\* as if the destination map were made anew for every entry
SetMapIndexFresh(m, k, v) == [ x \in { k } |-> v ]

\* reflect.Value.SetMapIndex on the map m
SetMapIndex(m, k, v) == [ x \in DOMAIN m \cup { k } |-> IF x = k THEN v ELSE m[x] ]

\* states of a running Copy: the destination so far, whether it panicked, and
\* the units handed to CopyService.CopyValue with what it returned
Running(d) == [ to |-> d, panic |-> FALSE, units |-> << >> ]

\* appends the slot whatever CopyValue returned
AppendUnitAlways(st, elem, r) ==
  [ st EXCEPT !.to.v = Append(@, r.to),
              !.units = Append(@, [ from |-> elem, ret |-> r.ret, val |-> r.to ]) ]

\* appends the slot before the conversion and again after it
AppendUnitTwice(st, elem, r) ==
  [ st EXCEPT !.to.v = IF r.ret THEN Append(Append(@, Zero(r.to.t)), r.to)
                       ELSE Append(@, Zero(r.to.t)),
              !.units = Append(@, [ from |-> elem, ret |-> r.ret, val |-> r.to ]) ]

\* the body of the slice loop, r being what CopyValue returned: append on true
AppendUnit(st, elem, r) ==
  [ st EXCEPT !.to.v = IF r.ret THEN Append(@, r.to) ELSE @,
              !.units = Append(@, [ from |-> elem, ret |-> r.ret, val |-> r.to ]) ]

RECURSIVE CopySlice(_, _, _)
\* slice to slice: the loop from index i on
CopySlice(f, st, i) ==
  IF i > Len(f.v) THEN st
  ELSE CopySlice(f, AppendUnit(st, f.v[i], CopyValue(f.v[i], Zero(Elem(st.to.t)))), i + 1)

\* a nil pointer field is set to a new zero value before the conversion
Allocated(slot, ftype) ==
  IF Kind(ftype) = "ptr" /\ IsNilPtr(slot)
  THEN [ t |-> ftype, v |-> << Zero(indirectType(ftype)) >> ]
  ELSE slot

\* the destination field n after CopyValue returned r
FieldCopied(st, n, r) ==
  [ st EXCEPT !.to.v[n] = r.to, !.units = Append(@, [ name |-> n, ret |-> r.ret ]) ]

\* the body of the field loops: allocate a nil pointer field, then CopyValue
CopyIntoField(src, st, n) ==
  FieldCopied(st, n, CopyValue(src, Allocated(st.to.v[n], FieldType(st.to.t, n))))

RECURSIVE CopyStructByPosition(_, _, _)
\* matches the fields by their position, not by their name
CopyStructByPosition(f, st, i) ==
  IF i > Len(StructFields(f.t)) THEN st
  ELSE CopyStructByPosition(f,
                            IF i <= Len(StructFields(st.to.t))
                               /\ Exported(StructFields(st.to.t)[i].name)
                            THEN CopyIntoField(f.v[StructFields(f.t)[i].name], st,
                                               StructFields(st.to.t)[i].name)
                            ELSE st,
                            i + 1)

RECURSIVE CopyStruct(_, _, _)
\* struct to struct: the loop from field i of the source type on
CopyStruct(f, st, i) ==
  IF i > Len(StructFields(f.t)) THEN st
  ELSE CopyStruct(f,
                  IF StructFields(f.t)[i].name \in FieldNames(st.to.t)
                     /\ Exported(StructFields(f.t)[i].name)
                  THEN CopyIntoField(f.v[StructFields(f.t)[i].name], st,
                                     StructFields(f.t)[i].name)
                  ELSE st,
                  i + 1)

\* MakeMap when the destination map is nil
MadeMap(st) ==
  IF st.to.v.nil THEN [ st EXCEPT !.to.v = [ nil |-> FALSE, m |-> << >> ] ] ELSE st

\* writes the entry as soon as the key has converted
EntryCopiedOnKey(st, key, val, rk, rv) ==
  [ st EXCEPT !.to.v.m = IF rk.ret THEN SetMapIndex(@, rk.to, rv.to) ELSE @,
              !.units = Append(@, [ key |-> key, val |-> val, kret |-> rk.ret,
                                    vret |-> rk.ret /\ rv.ret, k |-> rk.to, v |-> rv.to ]) ]

\* the end of the body of the map loops, rk and rv being what CopyValue returned
\* for the key and for the value: SetMapIndex when both returned true.  The
\* value is converted only once the key has converted.
EntryCopied(st, key, val, rk, rv) ==
  [ st EXCEPT !.to.v.m = IF rk.ret /\ rv.ret THEN SetMapIndex(@, rk.to, rv.to) ELSE @,
              !.units = Append(@, [ key |-> key, val |-> val, kret |-> rk.ret,
                                    vret |-> rk.ret /\ rv.ret, k |-> rk.to, v |-> rv.to ]) ]

\* the body of the map loops: convert the key, then the value
CopyEntry(key, val, st) ==
  EntryCopied(st, key, val, CopyValue(key, Zero(Key(st.to.t))),
              CopyValue(val, Zero(Elem(st.to.t))))

RECURSIVE CopyMap(_, _, _)
\* map to map: kv.Next() yields the source keys in the sequence order
CopyMap(f, st, order) ==
  IF order = << >> THEN st
  ELSE CopyMap(f, CopyEntry(Head(order), f.v.m[Head(order)], st), Tail(order))

\* toType.FieldByName(kv.Key().String()): the fields the key names
FieldsNamed(t, key) ==
  { n \in FieldNames(t) : Kind(key.t) = "string" /\ NameText(n) = key.v }

\* the body of the map to struct loop, names being the fields the key names
CopyKeyedField(val, st, names) ==
  IF names # { } /\ Exported(CHOOSE n \in names : TRUE)
  THEN CopyIntoField(val, st, CHOOSE n \in names : TRUE)
  ELSE st

RECURSIVE CopyMapToStruct(_, _, _)
\* map to struct: kv.Next() yields the source keys in the sequence order
CopyMapToStruct(f, st, order) ==
  IF order = << >> THEN st
  ELSE CopyMapToStruct(f,
                       CopyKeyedField(f.v.m[Head(order)], st,
                                      FieldsNamed(st.to.t, Head(order))),
                       Tail(order))

\* reflect.Value.Set panics on a value read from an unexported field: the
\* assigning and the converting branch of CopyValue pass fromValue on to it
SetPanics(n, ft, tt) ==
  /\ ~Exported(n)
  /\ ft # TInvalid /\ tt # TInvalid
  /\ \/ AssignableTo(ft, tt)
     \/ Kind(ft) # "string" /\ Kind(tt) # "string" /\ CanConvert(ft, tt)

\* the body of the struct to map loop for field n
CopyFieldEntry(f, st, n, rk) ==
  IF rk.ret /\ SetPanics(n, indirectValue(f.v[n]).t, indirectType(Elem(st.to.t)))
  THEN [ st EXCEPT !.panic = TRUE ]
  ELSE CopyEntry(StrV(NameText(n)), f.v[n], st)

RECURSIVE CopyStructToMap(_, _, _)
\* struct to map: the loop from field i of the source type on
CopyStructToMap(f, st, i) ==
  IF i > Len(StructFields(f.t)) \/ st.panic THEN st
  ELSE CopyStructToMap(f,
                       CopyFieldEntry(f, st, StructFields(f.t)[i].name,
                                      CopyValue(StrV(NameText(StructFields(f.t)[i].name)),
                                                Zero(Key(st.to.t)))),
                       i + 1)

\* value to value: one call of CopyValue
CopyUnit(f, r) == [ to |-> r.to, panic |-> FALSE, units |-> << [ from |-> f, ret |-> r.ret ] >> ]

\* the five strategies and the fallback, on the unwrapped values f and d
Strategy(f, d, order) ==
  CASE Kind(f.t) = "slice" /\ Kind(d.t) = "slice" -> CopySlice(f, Running(d), 1)
    [] Kind(f.t) = "struct" /\ Kind(d.t) = "struct" -> CopyStruct(f, Running(d), 1)
    [] Kind(f.t) = "map" /\ Kind(d.t) = "map" -> CopyMap(f, MadeMap(Running(d)), order)
    [] Kind(f.t) = "map" /\ Kind(d.t) = "struct" -> CopyMapToStruct(f, Running(d), order)
    [] Kind(f.t) = "struct" /\ Kind(d.t) = "map" ->
         CopyStructToMap(f, MadeMap(Running(d)), 1)
    [] OTHER -> CopyUnit(f, CopyValue(f, d))

\* the destination argument with what the strategy left behind the pointer
Behind(to, st) == [ st EXCEPT !.to = SetIndirect(to, st.to) ]

\* Copy from indirectValue on: Type() of the zero Value panics
CopyUnwrappedArgs(f, d, to, order) ==
  IF ~IsValid(f) \/ ~IsValid(d)
  THEN [ to |-> to, panic |-> TRUE, units |-> << >> ]
  ELSE Behind(to, Strategy(f, d, order))

\* Copy(from, to) with the source map iterated in `order`: [to, panic, units],
\* `to` being the destination argument after the call
Copy(from, to, order) ==
  IF ~IsValid(from) THEN Running(to)
  ELSE IF ~IsValid(to) THEN [ to |-> to, panic |-> TRUE, units |-> << >> ]
  ELSE IF Kind(to.t) # "ptr" THEN Running(to)
  ELSE CopyUnwrappedArgs(indirectValue(from), indirectValue(to), to, order)

(***************************************************************************)
(* The inputs the calls are made with                                      *)
(***************************************************************************)
MaxHour == 1         \* timestamps are the instants 0..MaxHour
MaxSliceLen == 3     \* source slices hold up to MaxSliceLen elements
MaxDstLen == 1       \* destination slices already hold up to MaxDstLen elements
MaxEntries == 2      \* source maps hold up to MaxEntries entries

\* w - 1 modulo 2^64
DecWord(w) == NegWord(IncWord(NegWord(w)))

Widths == { 8, 16, 32, 64 }

\* the values of a signed type the calls use: the ends of every width it holds
SignedPool(t) ==
  { WordZero, Word(1), Word(42), NegWord(Word(1)) }
    \cup { DecWord(PowWord(w - 1)) : w \in { b \in Widths : b <= Bits(t) } }
    \cup { NegWord(PowWord(w - 1)) : w \in { b \in Widths : b <= Bits(t) } }

\* the values of an unsigned type the calls use
UnsignedPool(t) ==
  { WordZero, Word(1), Word(42) }
    \cup { PowWord(w - 1) : w \in { b \in Widths : b <= Bits(t) } }
    \cup { DecWord(PowWord(w)) : w \in { b \in Widths : b <= Bits(t) /\ b < 64 } }
    \cup { WordMaxU64 : w \in { b \in Widths : b <= Bits(t) /\ b = 64 } }

IntegerValues ==
  UNION { { IntV(t, w) : w \in SignedPool(t) } : t \in SignedTypes }
    \cup UNION { { IntV(t, w) : w \in UnsignedPool(t) } : t \in UnsignedTypes }

BoolValues == { BoolV(TRUE), BoolV(FALSE) }
TimeValues == { TimeV(h) : h \in 0..MaxHour }

\* texts: numbers inside and outside the widths, signs, booleans, timestamps
NumberTexts ==
  { << "1" >>, << "3" >>, << "+", "1" >>, << "-", "1" >>, << "0", "7" >>,
    << "3", "0", "0" >>, << "2", "5", "6" >>, << "-", "1", "2", "9" >>,
    << "1", "2", "7" >>, << "7", "0", "0", "0", "0" >>,
    << "4", "2", "9", "4", "9", "6", "7", "2", "9", "6" >>,
    << "9", "2", "2", "3", "3", "7", "2", "0", "3", "6", "8", "5", "4", "7", "7",
       "5", "8", "0", "8" >>,
    << "1", "8", "4", "4", "6", "7", "4", "4", "0", "7", "3", "7", "0", "9", "5",
       "5", "1", "6", "1", "6" >> }
OtherTexts ==
  { << >>, << "x" >>, << "A" >>, << "t", "r", "u", "e" >>, << "F" >>,
    FormatTime(0, ZoneUTC, LayoutDateTime), FormatTime(0, ZoneUTC, LayoutDateOnly) }
StringValues == { StrV(s) : s \in NumberTexts \cup OtherTexts }

LabelValues == { StructV(TLabel, [ Text |-> StrV(<< "A" >>) ]) }

ScalarValues ==
  BoolValues \cup IntegerValues \cup StringValues \cup TimeValues \cup LabelValues

ScalarTypes == { TBool, TString, TTime, TLabel } \cup IntegerTypes

\* sources of CopyValue: scalars, pointers to them, a nil pointer, no value
Sources ==
  ScalarValues \cup { PtrV(BoolV(TRUE)), PtrV(StrV(<< "3" >>)), NilPtr(TString), Invalid }

\* destination slots of CopyValue: fresh and already filled ones, behind
\* pointers too
Slots ==
  { Zero(t) : t \in ScalarTypes }
    \cup { StrV(<< "A" >>), IntV(TInt8, Word(7)), TimeV(1), BoolV(TRUE) }
    \cup { PtrV(Zero(TString)), PtrV(IntV(TInt, Word(7))), NilPtr(TInt) }

\* all sequences over S of length at most n
RECURSIVE SeqsUpTo(_, _)
SeqsUpTo(S, n) ==
  IF n = 0 THEN { << >> }
  ELSE LET shorter == SeqsUpTo(S, n - 1)
       IN shorter \cup { Append(q, e) : q \in { r \in shorter : Len(r) = n - 1 }, e \in S }

\* all orders in which the elements of S can be enumerated
RECURSIVE Orders(_)
Orders(S) ==
  IF S = { } THEN { << >> }
  ELSE UNION { { << e >> \o o : o \in Orders(S \ { e }) } : e \in S }

\* all maps with at most n keys out of K and values out of V
PartialMaps(K, V, n) ==
  UNION { [ D -> V ] : D \in { X \in SUBSET K : Cardinality(X) <= n } }

SliceTexts == { StrV(<< "1" >>), StrV(<< "x" >>), StrV(<< "3" >>),
                StrV(<< "3", "0", "0" >>) }

\* (source, destination) pairs of the slice to slice copies
SlicePairs ==
  LET strings == { SliceV(TString, q) : q \in SeqsUpTo(SliceTexts, MaxSliceLen) }
      times == { SliceV(TTime, q) : q \in SeqsUpTo(TimeValues, MaxSliceLen) }
      ptrs == { SliceV(PtrTo(TString), q) :
                  q \in SeqsUpTo({ NilPtr(TString), PtrV(StrV(<< "3" >>)) }, MaxSliceLen) }
      dst(t, pool) == { SliceV(t, q) : q \in SeqsUpTo(pool, MaxDstLen) }
  IN (strings \X (dst(TInt, { IntV(TInt, Word(7)) })
                    \cup dst(TInt8, { IntV(TInt8, Word(7)) })
                    \cup dst(TTime, { TimeV(0) })
                    \cup dst(PtrTo(TInt), { NilPtr(TInt) })
                    \cup dst(TLabel, { })))
       \cup (times \X dst(TString, { StrV(<< "A" >>) }))
       \cup (ptrs \X dst(TInt, { IntV(TInt, Word(7)) }))

SrcStructs ==
  { StructV(TSrc, [ Name |-> StrV(n), Age |-> IntV(TInt8, a), Extra |-> IntV(TInt, Word(1)),
                    Tag |-> StrV(g), secret |-> StrV(<< "s" >>) ]) :
      n \in { << "A" >>, << "1" >> }, a \in { Word(42), NegWord(Word(1)) },
      g \in { << >>, << "x" >> } }

DstStructs ==
  { Zero(TDst),
    StructV(TDst, [ Name |-> StrV(<< "B" >>), Age |-> StrV(<< "9" >>),
                    Other |-> IntV(TInt, Word(5)), Tag |-> PtrV(StrV(<< "o" >>)),
                    Nick |-> PtrV(StrV(<< "n" >>)), secret |-> StrV(<< "k" >>) ]) }

\* (source, destination) pairs of the struct to struct copies
StructPairs ==
  (SrcStructs \X (DstStructs \cup { Zero(TSrc), Zero(TLabel) }))
    \cup (LabelValues \X { Zero(TDst) })
    \cup ({ Zero(TDst) } \X { Zero(TSrc) })

MapKeyTexts == { StrV(<< "1" >>), StrV(<< "+", "1" >>), StrV(<< "x" >>),
                 StrV(<< "3", "0", "0" >>) }
MapValTexts == { StrV(<< "1" >>), StrV(<< "x" >>) }

\* (source, destination) pairs of the map to map copies
MapPairs ==
  LET src == { MapV(TString, TString, m) :
                 m \in PartialMaps(MapKeyTexts, MapValTexts, MaxEntries) }
             \cup { NilMap(TString, TString) }
      one == IntV(TInt, Word(1))
  IN src \X { NilMap(TInt, TString), MapV(TInt, TString, [ k \in { one } |-> StrV(<< "o" >>) ]),
              NilMap(TInt8, TInt), NilMap(TTime, TString),
              MapV(TInt8, TInt, [ k \in { IntV(TInt8, Word(1)) } |-> IntV(TInt, Word(7)) ]),
              MapV(TString, TString, [ k \in { StrV(<< "x" >>) } |-> StrV(<< "o" >>) ]) }

FieldKeyTexts == { StrV(NameText(n)) : n \in { "Name", "Age", "Other", "Tag", "secret" } }
                   \cup { StrV(<< "x" >>) }

\* (source, destination) pairs of the map to struct copies
MapStructPairs ==
  { MapV(TString, TString, m) :
      m \in PartialMaps(FieldKeyTexts, { StrV(<< "A" >>), StrV(<< "7" >>) }, MaxEntries) }
    \X DstStructs

\* (source, destination) pairs of the struct to map copies
StructMapPairs ==
  (SrcStructs \cup LabelValues)
    \X { NilMap(TString, TString), NilMap(TString, TInt), NilMap(TInt, TString),
         NilMap(TTime, TString), NilMap(TBool, TString),
         MapV(TString, TString, [ k \in { StrV(<< "x" >>) } |-> StrV(<< "o" >>) ]),
         MapV(TString, TInt, [ k \in { StrV(NameText("Name")) } |-> IntV(TInt, Word(5)) ]) }

\* sources that are absent: untyped nil, nil pointers to any depth
AbsentSources == { Invalid, NilPtr(TString), PtrV(NilPtr(TString)), NilPtr(TSrc) }
\* destinations that cannot be written: no pointer, untyped nil, nil pointers
UnwritableDestinations ==
  { Zero(TString), StrV(<< "A" >>), Zero(TDst), Invalid, NilPtr(TString), NilPtr(TDst),
    PtrV(NilPtr(TString)) }
ValidSources == { StrV(<< "3" >>), IntV(TInt, Word(1)), PtrV(StrV(<< "3" >>)) }
                  \cup { s \in SrcStructs : s.v.Age.v = Word(42) }
WritableDestinations == { PtrV(Zero(TString)), PtrV(StrV(<< "A" >>)), PtrV(Zero(TDst)),
                          PtrV(PtrV(Zero(TInt))) }

(***************************************************************************)
(* The calls                                                               *)
(***************************************************************************)
NoCall == [ op |-> "none" ]

Config == [ tz |-> TimeZone, layout |-> DateTimeLayout ]
NoWrite == [ var |-> "none", val |-> "" ]

RaceIdle ==
  /\ pc = "idle" /\ tzRead = ZoneUTC /\ layoutRead = LayoutDateTime
  /\ seen = [ tz |-> ZoneShanghai, layout |-> LayoutDateTime ]
  /\ atStart = [ tz |-> ZoneShanghai, layout |-> LayoutDateTime ]
  /\ todo = << >> /\ done = << >>
  /\ writing = NoWrite /\ writes = 0

\* the embedder sets DateTimeLayout
SetDateTimeLayout ==
  /\ call = NoCall
  /\ \E l \in Layouts \ { DateTimeLayout } : DateTimeLayout' = l
  /\ UNCHANGED << intSize, TimeZone, call, race >>

\* the embedder sets TimeZone
SetTimeZone ==
  /\ call = NoCall
  /\ \E z \in ZoneNames \ { TimeZone } : TimeZone' = z
  /\ UNCHANGED << intSize, DateTimeLayout, call, race >>

Unchanged == UNCHANGED << intSize, DateTimeLayout, TimeZone, race >>

\* CopyService.CopyValue(from, to)
CallCopyValue ==
  /\ call = NoCall
  /\ \E from \in Sources, to \in Slots :
       call' = [ op |-> "CopyValue", from |-> from, to |-> to, out |-> CopyValue(from, to) ]
  /\ Unchanged

\* the second half of a round trip, `there` being the outcome of the first
RoundTrip(x, there) ==
  [ op |-> "RoundTrip", from |-> x, there |-> there,
    back |-> CopyValue(there.to, Zero(x.t)) ]

\* CopyValue of a scalar into a string slot, then of that string into a slot of
\* the scalar's type
CallRoundTrip ==
  /\ call = NoCall
  /\ \E x \in BoolValues \cup IntegerValues :
       call' = RoundTrip(x, CopyValue(x, Zero(TString)))
  /\ Unchanged

\* Copy(from, &to), the destination given by pointer and the source by value
DoCopy(op, pairs) ==
  /\ call = NoCall
  /\ \E p \in pairs :
       \E order \in IF Kind(p[1].t) = "map" THEN Orders(DOMAIN p[1].v.m) ELSE { << >> } :
         call' = [ op |-> op, from |-> p[1], to |-> PtrV(p[2]), order |-> order,
                   out |-> Copy(p[1], PtrV(p[2]), order) ]
  /\ Unchanged

CopySlices == DoCopy("slices", SlicePairs)
CopyStructs == DoCopy("structs", StructPairs)
CopyMaps == DoCopy("maps", MapPairs)
CopyMapToStructs == DoCopy("map to struct", MapStructPairs)
CopyStructToMaps == DoCopy("struct to map", StructMapPairs)

\* Copy of a pair that is none of the five shapes: one unit conversion
CopyValues ==
  /\ call = NoCall
  /\ \E from \in ScalarValues \cup { PtrV(StrV(<< "3" >>)) },
        to \in { Zero(t) : t \in ScalarTypes } \cup { Zero(TDst), PtrV(Zero(TInt)) } :
       call' = [ op |-> "values", from |-> from, to |-> PtrV(to), order |-> << >>,
                 out |-> Copy(from, PtrV(to), << >>) ]
  /\ Unchanged

\* Copy with an absent source or a destination that cannot be written
CopyInvalid ==
  /\ call = NoCall
  /\ \E from \in AbsentSources \cup ValidSources,
        to \in UnwritableDestinations \cup WritableDestinations :
       /\ from \in AbsentSources \/ to \in UnwritableDestinations
       /\ call' = [ op |-> "invalid", from |-> from, to |-> to, order |-> << >>,
                    out |-> Copy(from, to, << >>) ]
  /\ Unchanged

\* the caller has looked at the outcome; the next call can be made
Return ==
  /\ call # NoCall
  /\ call' = NoCall
  /\ Unchanged

Init ==
  /\ intSize \in { 32, 64 }
  /\ DateTimeLayout = LayoutDateTime
  /\ TimeZone = ZoneShanghai
  /\ call = NoCall
  /\ RaceIdle

Next ==
  \/ SetDateTimeLayout
  \/ SetTimeZone
  \/ CallCopyValue
  \/ CallRoundTrip
  \/ CopySlices
  \/ CopyStructs
  \/ CopyMaps
  \/ CopyMapToStructs
  \/ CopyStructToMaps
  \/ CopyValues
  \/ CopyInvalid
  \/ Return

Spec == Init /\ [][Next]_vars

(***************************************************************************)
(* Copy of timestamps while another thread assigns the package variables.  *)
(* Nothing synchronizes the two: an assignment of a string stores two      *)
(* words, and a read that falls between the stores can see the old value,  *)
(* the new one, or a header made of both.                                  *)
(***************************************************************************)
MaxWrites == 2       \* the other thread makes at most MaxWrites assignments
MaxUnits == 2        \* the Copy running beside it converts up to MaxUnits timestamps

\* the source slice of n timestamps
Timestamps(n) == [ i \in 1..n |-> TimeV((i - 1) % (MaxHour + 1)) ]

TornText == "<torn>"

\* what a read of the package variable can return at this moment
Visible(var, current) ==
  IF writing.var = var THEN { current, writing.val, TornText } ELSE { current }

\* reads TimeZone once, when Copy begins
ReadTimeZoneAtStart == { atStart.tz }

\* time.LoadLocation(TimeZone) in getTimeZone: the values the read of TimeZone
\* can return
ReadTimeZone == Visible("TimeZone", TimeZone)

\* the read of DateTimeLayout in CopyValue
ReadDateTimeLayout == Visible("DateTimeLayout", DateTimeLayout)

\* Copy(from, &to) of a []time.Time into a []string begins
StartCopy ==
  /\ pc = "idle"
  /\ \E n \in 1..MaxUnits : todo' = Timestamps(n)
  /\ done' = << >>
  /\ atStart' = Config
  /\ seen' = Config
  /\ pc' = "unit"
  /\ UNCHANGED << intSize, DateTimeLayout, TimeZone, call, tzRead, layoutRead, writing, writes >>

\* getTimeZone() of v.In(getTimeZone()).Format(DateTimeLayout); Go does not
\* order it with the read of DateTimeLayout
LoadTimeZone ==
  /\ pc \in { "unit", "layout" }
  /\ todo # << >>
  /\ \E name \in ReadTimeZone : tzRead' = getTimeZoneOf(name)
  /\ pc' = IF pc = "unit" THEN "tz" ELSE "both"
  /\ seen' = IF pc = "unit" THEN Config ELSE seen
  /\ UNCHANGED << intSize, DateTimeLayout, TimeZone, call, layoutRead, atStart, todo,
                  done, writing, writes >>

\* the read of DateTimeLayout of the same expression
LoadLayout ==
  /\ pc \in { "unit", "tz" }
  /\ todo # << >>
  /\ \E layout \in ReadDateTimeLayout : layoutRead' = layout
  /\ pc' = IF pc = "unit" THEN "layout" ELSE "both"
  /\ seen' = IF pc = "unit" THEN Config ELSE seen
  /\ UNCHANGED << intSize, DateTimeLayout, TimeZone, call, tzRead, atStart, todo,
                  done, writing, writes >>

\* Format, toValue.Set and the append of the unit
FormatUnit ==
  /\ pc = "both"
  /\ done' = Append(done, [ from |-> Head(todo), loc |-> tzRead, layout |-> layoutRead,
                            seen |-> seen,
                            text |-> FormatTime(Head(todo).v[1], tzRead, layoutRead) ])
  /\ todo' = Tail(todo)
  /\ pc' = "unit"
  \* the conversion's temporaries are dead
  /\ tzRead' = ZoneUTC /\ layoutRead' = LayoutDateTime /\ seen' = atStart
  /\ UNCHANGED << intSize, DateTimeLayout, TimeZone, call, atStart, writing, writes >>

\* the loop of Copy ends
FinishCopy ==
  /\ pc = "unit"
  /\ todo = << >>
  /\ pc' = "idle"
  /\ UNCHANGED << intSize, DateTimeLayout, TimeZone, call, tzRead, layoutRead, seen,
                  atStart, todo, done, writing, writes >>

\* another thread starts to assign TimeZone or DateTimeLayout
BeginAssign ==
  /\ writing = NoWrite
  /\ writes < MaxWrites
  /\ writes' = writes + 1
  /\ \/ \E z \in ZoneNames \ { TimeZone } : writing' = [ var |-> "TimeZone", val |-> z ]
     \/ \E l \in Layouts \ { DateTimeLayout } :
          writing' = [ var |-> "DateTimeLayout", val |-> l ]
  /\ UNCHANGED << intSize, DateTimeLayout, TimeZone, call, pc, tzRead, layoutRead, seen,
                  atStart, todo, done >>

\* the assignment is complete
EndAssign ==
  /\ writing # NoWrite
  /\ TimeZone' = IF writing.var = "TimeZone" THEN writing.val ELSE TimeZone
  /\ DateTimeLayout' = IF writing.var = "DateTimeLayout" THEN writing.val ELSE DateTimeLayout
  /\ writing' = NoWrite
  /\ UNCHANGED << intSize, call, pc, tzRead, layoutRead, seen, atStart, todo, done, writes >>

NextRace ==
  \/ StartCopy
  \/ LoadTimeZone
  \/ LoadLayout
  \/ FormatUnit
  \/ FinishCopy
  \/ BeginAssign
  \/ EndAssign

\* the race does not depend on the width of int
InitRace == Init /\ intSize = 64

SpecRace == InitRace /\ [][NextRace]_vars

(***************************************************************************)
(* Properties                                                              *)
(***************************************************************************)
\* the value behind the destination pointer before and after the last Copy
Before == call.to.v[1]
After == call.out.to.v[1]
\* the map a destination map is once MakeMap has run
Entries(d) == IF d.v.nil THEN << >> ELSE d.v.m
Units == call.out.units
IsMapCopy == call.op \in { "maps", "struct to map" }
\* the units whose key and value conversions both returned true
WrittenUnits == { i \in 1..Len(Units) : Units[i].kret /\ Units[i].vret }

\* C1: in the map to map and the struct to map copy, every entry the
\* destination map holds afterwards is either an entry it held before, left as
\* it was, or the key and value of a pair whose two conversions both returned
\* true; a pair with a conversion that returned false adds and changes nothing.
C1_EntryAtomicity ==
  IsMapCopy =>
    /\ DOMAIN Entries(Before) \subseteq DOMAIN After.v.m
    /\ \A k \in DOMAIN After.v.m :
         \/ k \in DOMAIN Entries(Before) /\ After.v.m[k] = Entries(Before)[k]
         \/ \E i \in WrittenUnits : Units[i].k = k /\ Units[i].v = After.v.m[k]
    /\ (WrittenUnits = { } => After.v.m = Entries(Before))

\* a map copy into a map that held an entry, with a pair whose key converted and
\* whose value did not, a pair whose key did not convert, and nothing written
C1_Witness ==
  /\ call.op = "maps"
  /\ Entries(Before) # << >>
  /\ WrittenUnits = { }
  /\ \E i \in 1..Len(Units) : Units[i].kret /\ ~Units[i].vret
  /\ \E i \in 1..Len(Units) : ~Units[i].kret
  /\ After.v.m = Entries(Before)

\* C2: Copy with an absent source or with a destination that cannot be written
\* returns normally and leaves the destination as it was.
C2_InvalidInputIsNoOp ==
  call.op = "invalid" => ~call.out.panic /\ call.out.to = call.to

\* the slots CopyValue returned true for, in order
KeptSlots(rs) == SelectSeq(rs, LAMBDA r : r.ret)
SlotsOf(rs) == [ i \in 1..Len(rs) |-> rs[i].to ]

\* C3: after a slice to slice copy the destination is what it was, followed in
\* source order by the slots of exactly the elements CopyValue returned true for;
\* ["1","x","3"] copied into an empty []int gives [1, 3].
C3_SliceKeepsConverted ==
  call.op = "slices" =>
    /\ After.v = Before.v \o SlotsOf(KeptSlots(
                   [ i \in 1..Len(call.from.v) |->
                       CopyValue(call.from.v[i], Zero(Elem(Before.t))) ]))
    /\ (/\ call.from = SliceV(TString, << StrV(<< "1" >>), StrV(<< "x" >>), StrV(<< "3" >>) >>)
        /\ Before = SliceV(TInt, << >>)
        => After.v = << IntV(TInt, Word(1)), IntV(TInt, Word(3)) >>)

\* the copy of ["1","x","3"] into an empty []int has happened
C3_Witness ==
  /\ call.op = "slices"
  /\ call.from = SliceV(TString, << StrV(<< "1" >>), StrV(<< "x" >>), StrV(<< "3" >>) >>)
  /\ Before = SliceV(TInt, << >>)
  /\ Len(After.v) = 2

\* C4 as stated: after a slice to slice copy the destination is no longer than
\* the source, whatever the destination held before.
C4_LengthAtMostSource ==
  call.op = "slices" => Len(After.v) <= Len(call.from.v)

\* C4 as amended: a slice to slice copy appends at most one element per source
\* element, so the destination is no longer than what it held plus the source,
\* and no longer than the source when it was empty.
C4_LengthAtMostBeforePlusSource ==
  call.op = "slices" =>
    /\ Len(After.v) <= Len(Before.v) + Len(call.from.v)
    /\ Len(After.v) >= Len(Before.v)
    /\ (Before.v = << >> => Len(After.v) <= Len(call.from.v))

\* a copy into a destination that held an element, some source element dropped
C4_Witness ==
  /\ call.op = "slices"
  /\ Len(Before.v) > 0
  /\ Len(call.from.v) > 1
  /\ Len(After.v) > Len(Before.v)
  /\ Len(After.v) < Len(Before.v) + Len(call.from.v)

\* the destination fields CopyValue was called on
UnitNames == { Units[i].name : i \in 1..Len(Units) }

\* C5: in a struct to struct copy CopyValue is called only on destination
\* fields that are settable and have a source field of the same name, and every
\* other destination field keeps its value, a nil pointer staying nil.
C5_FieldsByNameOnly ==
  call.op = "structs" =>
    /\ UnitNames \subseteq FieldNames(Before.t) \cap FieldNames(call.from.t)
    /\ \A n \in UnitNames : Exported(n)
    /\ \A n \in FieldNames(Before.t) \ UnitNames : After.v[n] = Before.v[n]
    /\ \A n \in FieldNames(Before.t) \ FieldNames(call.from.t) : After.v[n] = Before.v[n]

\* Src{Name: "A", Extra: 1, ...} copied into a zero Dst: Name is copied, Other
\* stays 0, the pointer Nick stays nil, the pointer Tag is allocated
C5_Witness ==
  /\ call.op = "structs"
  /\ call.from.t = TSrc /\ Before = Zero(TDst)
  /\ After.v.Name = StrV(<< "A" >>)
  /\ After.v.Other = IntV(TInt, WordZero)
  /\ IsNilPtr(After.v.Nick)
  /\ ~IsNilPtr(After.v.Tag)
  /\ "Extra" \notin UnitNames

\* C6: CopyValue returns true exactly when it set the destination slot, and a
\* call that returned false left the slot as it was.
C6_ReturnsWhetherWritten ==
  call.op = "CopyValue" =>
    /\ call.out.ret <=> call.out.wrote
    /\ (~call.out.ret => call.out.to = call.to)

\* C7: a boolean or an integer of any width, converted into a string slot and
\* that string converted into a slot of its type, is reproduced, both calls
\* returning true.
C7_RoundTrip ==
  call.op = "RoundTrip" =>
    /\ call.there.ret
    /\ call.back.ret
    /\ call.back.to = call.from

\* the text without a leading plus sign and leading zeros
RECURSIVE StripZeros(_)
StripZeros(s) == IF Len(s) > 1 /\ Head(s) = "0" THEN StripZeros(Tail(s)) ELSE s
NormalText(s) ==
  IF s # << >> /\ Head(s) = "+" THEN StripZeros(Tail(s))
  ELSE IF s # << >> /\ Head(s) = "-"
       THEN IF StripZeros(Tail(s)) = << "0" >> THEN << "0" >>
            ELSE << "-" >> \o StripZeros(Tail(s))
       ELSE StripZeros(s)

FixedWidthIntegers == IntegerTypes \ { TInt, TUint }

\* C9: when CopyValue of a string into an integer slot of 8, 16, 32 or 64 bits
\* returns true, the integer written is the number the text denotes.
C9_NoWrappedValue ==
  /\ call.op = "CopyValue"
  /\ call.from.t = TString
  /\ call.to.t \in FixedWidthIntegers
  /\ call.out.ret
  => (IF call.to.t \in SignedTypes THEN FormatInt(call.out.to.v)
      ELSE FormatUint(call.out.to.v)) = NormalText(call.from.v)

\* the destination after the last map copy had the source been iterated in order o
AfterInOrder(o) == Copy(call.from, call.to, o).to

\* C10 as stated: the result of a map to map copy is the same for every order
\* in which the source entries are iterated.
C10_SameForEveryOrder ==
  call.op = "maps" =>
    \A o \in Orders(DOMAIN call.from.v.m) : AfterInOrder(o) = call.out.to

\* no two pairs are written under one destination key with different values
NoClash ==
  \A i, j \in WrittenUnits : Units[i].k = Units[j].k => Units[i].v = Units[j].v

\* C10 as amended: the result of a map to map copy is the same for every
\* iteration order unless two source keys convert to the same destination key
\* and their converted values differ.
C10_SameUnlessKeysClash ==
  call.op = "maps" /\ NoClash =>
    \A o \in Orders(DOMAIN call.from.v.m) : AfterInOrder(o) = call.out.to

\* "1" and "+1" both written under the key 1, with the same value, and so the
\* same map in either order
C10_Witness ==
  /\ call.op = "maps"
  /\ Cardinality(WrittenUnits) = 2
  /\ \A i, j \in WrittenUnits : Units[i].k = Units[j].k
  /\ NoClash
  /\ Cardinality(DOMAIN After.v.m) = 1

\* a load of the location, and a read of the layout, by the copying thread
TimeZoneLoaded == pc \in { "unit", "layout" } /\ pc' \in { "tz", "both" }
LayoutLoaded == pc \in { "unit", "tz" } /\ pc' \in { "layout", "both" }

\* C8: every conversion of a timestamp reads TimeZone and DateTimeLayout when it
\* runs, and gets what the variable holds at that moment (during an assignment
\* by another thread: the old value, the new one or a torn one), not what it
\* held when Copy began; the unit is formatted with the two values so read.
C8_ConfigReadPerConversion ==
  [][ /\ TimeZoneLoaded =>
           tzRead' \in { getTimeZoneOf(n) : n \in Visible("TimeZone", TimeZone) }
      /\ LayoutLoaded => layoutRead' \in Visible("DateTimeLayout", DateTimeLayout)
      /\ Len(done') > Len(done) =>
           done'[Len(done')].text = FormatTime(Head(todo).v[1], tzRead, layoutRead)
    ]_vars

\* one Copy whose first two units were converted in different locations, one of
\* them with the location loaded before DateTimeLayout changed and the layout
\* read after
C8_Witness ==
  /\ Len(done) >= 2
  /\ done[1].loc # done[2].loc
  /\ \E i \in 1..Len(done) :
       /\ done[i].loc = getTimeZoneOf(done[i].seen.tz)
       /\ done[i].layout \in Layouts
       /\ done[i].layout # done[i].seen.layout
====
